---- MODULE Spec2Model ----
(***************************************************************************)
(* Inventory allocation of the DaanaRx backend: the units and transactions *)
(* tables, and the handlers createUnit, updateUnit, checkOutUnit and       *)
(* checkOutMedicationFEFO, one action per storage call of a handler.       *)
(* Every storage call can fail; a failed write leaves the table unchanged. *)
(* The invitations table and the handlers of invitationService follow.     *)
(***************************************************************************)
EXTENDS Integers, Sequences, FiniteSets, TLC

\* ---------------------------------------------------------------- bounds
MaxUnits == 2
MaxQty == 2
MaxCalls == 3
MaxInvitations == 2
MaxTime == 8

\* ------------------------------------------------------- catalogue data
Procs == {1, 2}
Clinics == {"c1", "c2"}

\* The expiry dates in use (2025-01-01 and 2025-06-01), as yyyymmdd
ExpiryDates == {20250101, 20250601}

\* The drugs table: two drugs that share a name (up to case) and a strength.
Drugs ==
  [d1 |-> [ndc_id |-> "n1", medication_name |-> "aspirin", strength |-> 5, strength_unit |-> "mg"],
   d2 |-> [ndc_id |-> "n2", medication_name |-> "Aspirin", strength |-> 5, strength_unit |-> "mg"]]

DrugIds == DOMAIN Drugs

\* The lots table: lot, owning clinic, configured maximum capacity (if any).
Lots ==
  [l1 |-> [clinic_id |-> "c1", hasMax |-> FALSE, maxCapacity |-> 0],
   l2 |-> [clinic_id |-> "c2", hasMax |-> TRUE, maxCapacity |-> 3]]

LotIds == DOMAIN Lots

VARIABLES
  units,    \* the units table, in insertion order: unit_id is the index
  ledger,   \* the transactions table, in insertion order
  pc,       \* per request: the storage call it is about to make
  loc,      \* per request: the handler's local variables
  result,   \* per request: what the last call returned or threw
  pre,      \* per request: the tables as they were when the call started
  hist,     \* what has happened so far (see the events below)
  budget,   \* the number of calls that may still start
  invitations, \* the invitations table: invitation_id is the index
  users,    \* the users table: the <<email, clinic>> memberships
  now       \* the clock, in days

\* the tables and the clock of the invitation service
inviteVars == <<invitations, users, now>>

vars == <<units, ledger, pc, loc, result, pre, hist, budget,
          invitations, users, now>>

\* ------------------------------------------------------------- helpers
Min(a, b) == IF a <= b THEN a ELSE b

RECURSIVE SumSeq(_)
\* s.reduce((sum, x) => sum + x, 0) over a sequence of numbers
SumSeq(s) == IF s = <<>> THEN 0 ELSE s[1] + SumSeq(Tail(s))

\* toLowerCase on the names of the catalogue and of the requests
Lower(s) ==
  CASE s = "Aspirin" -> "aspirin"
    [] s = "ASPIRIN" -> "aspirin"
    [] OTHER -> s

\* JavaScript's !x for an optional string and an optional number
FalsyStr(input, f) == f \notin DOMAIN input \/ input[f] = ""
FalsyNum(input, f) == f \notin DOMAIN input \/ input[f] = 0

UnitIds == 1..Len(units)

NoLoc == [op |-> "none"]
NoResult == [op |-> "none", status |-> "none"]

\* ------------------------------------------------------------- storage
\* an update that forgets .eq('unit_id', unitId): every unit of the clinic
UpdateAvailable_AnyUnit(tbl, unitId, clinicId, q) ==
  [i \in 1..Len(tbl) |->
     IF tbl[i].clinic_id = clinicId
     THEN [tbl[i] EXCEPT !.available_quantity = q]
     ELSE tbl[i]]

\* units.update({available_quantity: q}).eq(unit_id).eq(clinic_id): a write
\* that matches no row changes nothing and reports no error.
UpdateAvailable(tbl, unitId, clinicId, q) ==
  IF unitId \in 1..Len(tbl) /\ tbl[unitId].clinic_id = clinicId
  THEN [tbl EXCEPT ![unitId].available_quantity = q]
  ELSE tbl

\* transactions.insert({...})
NewTransaction(type, quantity, unitId, clinicId, notes) ==
  [type |-> type, quantity |-> quantity, unit_id |-> unitId,
   clinic_id |-> clinicId, notes |-> notes]

\* ---------------------------------------------- checkOutMedicationFEFO
\* the validation of the request
FEFOInputInvalid(input) ==
  FalsyStr(input, "ndcId")
  /\ (FalsyStr(input, "medicationName") \/ FalsyNum(input, "strength")
      \/ FalsyStr(input, "strengthUnit"))

\* the drug ids the request resolves to
FEFODrugIds(input) ==
  IF ~FalsyStr(input, "ndcId")
  THEN LET hit == {d \in DrugIds : Drugs[d].ndc_id = input.ndcId}
       IN IF Cardinality(hit) = 1 THEN hit ELSE {}
  ELSE {d \in DrugIds :
          /\ Lower(Drugs[d].medication_name) = Lower(input.medicationName)
          /\ Drugs[d].strength = input.strength
          /\ Drugs[d].strength_unit = input.strengthUnit}

\* a units query that forgets .eq('clinic_id', clinicId)
FEFOMatches_AnyClinic(clinicId, drugIds) ==
  {u \in UnitIds : /\ units[u].available_quantity > 0
                   /\ units[u].drug_id \in drugIds}

\* the rows the units query selects
FEFOMatches(clinicId, drugIds) ==
  {u \in UnitIds : /\ units[u].clinic_id = clinicId
                   /\ units[u].available_quantity > 0
                   /\ units[u].drug_id \in drugIds}

\* a units query that forgets .order('expiry_date'): the rows in any order
FEFOOrders_Unordered(S) ==
  {s \in [1..Cardinality(S) -> S] :
     \A i, j \in 1..Cardinality(S) : i < j => s[i] # s[j]}

\* .order('expiry_date', {ascending: true}): every order of the rows that is
\* ascending in expiry_date (the order among equal dates is the store's choice)
FEFOOrders(S) ==
  {s \in [1..Cardinality(S) -> S] :
     /\ \A i, j \in 1..Cardinality(S) : i < j => s[i] # s[j]
     /\ \A i, j \in 1..Cardinality(S) :
          i < j => units[s[i]].expiry_date <= units[s[j]].expiry_date}

FEFORow(u) ==
  [unit_id |-> u, available_quantity |-> units[u].available_quantity,
   expiry_date |-> units[u].expiry_date]

\* "FEFO checkout - Unit N of batch"
FEFONote(n) ==
  CASE n = 1 -> "FEFO checkout - Unit 1 of batch"
    [] n = 2 -> "FEFO checkout - Unit 2 of batch"
    [] n = 3 -> "FEFO checkout - Unit 3 of batch"
    [] OTHER -> "FEFO checkout - Unit N of batch"

FEFOInputs ==
  {[ndcId |-> "n1", quantity |-> q] : q \in 0..(2 * MaxQty)}
  \cup {[ndcId |-> "n9", quantity |-> q] : q \in {1}}
  \cup {[medicationName |-> "ASPIRIN", strength |-> 5, strengthUnit |-> "mg",
         quantity |-> q] : q \in 1..(2 * MaxQty)}
  \cup {[medicationName |-> "ASPIRIN", strength |-> 0, strengthUnit |-> "mg",
         quantity |-> q] : q \in {1}}
  \cup {[medicationName |-> "ASPIRIN", quantity |-> q] : q \in {1}}

Begin(p, op, input, clinicId) ==
  /\ pc[p] = "idle"
  /\ UNCHANGED inviteVars
  /\ budget > 0
  /\ budget' = budget - 1
  /\ pre' = [pre EXCEPT ![p] = [units |-> units, ledger |-> ledger,
                                 input |-> input, clinicId |-> clinicId]]

Throw(p, op, status) ==
  /\ pc' = [pc EXCEPT ![p] = "idle"]
  /\ loc' = [loc EXCEPT ![p] = NoLoc]
  /\ result' = [result EXCEPT ![p] =
       [op |-> op, status |-> status, rollbackFailed |-> FALSE]]

Goto(p, label, l) ==
  /\ pc' = [pc EXCEPT ![p] = label]
  /\ loc' = [loc EXCEPT ![p] = l]
  /\ UNCHANGED result

\* a walk that takes what is still needed, whatever the unit holds
QuantityToTake_Remaining(remainingQuantity, available) == remainingQuantity

\* a walk that takes all a unit has
QuantityToTake_All(remainingQuantity, available) == available

\* line 124: Math.min(remainingQuantity, unit.available_quantity)
QuantityToTake(remainingQuantity, available) == Min(remainingQuantity, available)

\* a rollback that resets the unit to what the allocation took from it, the
\* quantity the unit had when the allocation read it
RollbackQuantity_Snapshot(rollbackAvailable, quantityTaken) == quantityTaken

\* a rollback that writes back what it re-read
RollbackQuantity_Reread(rollbackAvailable, quantityTaken) == rollbackAvailable

\* lines 153, 197: rollbackUnit.available_quantity + usedUnit.quantityTaken
RollbackQuantity(rollbackAvailable, quantityTaken) ==
  rollbackAvailable + quantityTaken

\* a decrement with the sign slipped
NewAvailableQuantity_Added(available, quantity) == available + quantity

\* lines 125, 274: the quantity the checkout writes, computed from the
\* quantity it read
NewAvailableQuantity(available, quantity) == available - quantity

\* a walk that goes through every candidate, whatever is still needed
FEFOFinished_NoBreak(l) == l.i > Len(l.units)

FEFOFinished(l) == l.i > Len(l.units) \/ l.remainingQuantity <= 0

FEFOReturn(p, l) ==
  /\ pc' = [pc EXCEPT ![p] = "idle"]
  /\ loc' = [loc EXCEPT ![p] = NoLoc]
  /\ result' = [result EXCEPT ![p] =
       [op |-> "checkOutMedicationFEFO", status |-> "ok",
        transactions |-> l.transactions,
        totalQuantityDispensed |-> l.quantity,
        unitsUsed |-> l.unitsUsed]]

\* lines 41-119: validation, drug lookup, units query, availability check
FEFOStart(p) ==
  \E input \in FEFOInputs, clinicId \in Clinics, looked \in BOOLEAN,
     fetched \in BOOLEAN :
    /\ Begin(p, "checkOutMedicationFEFO", input, clinicId)
    /\ UNCHANGED <<units, ledger, hist>>
    /\ LET op == "checkOutMedicationFEFO"
           drugIds == FEFODrugIds(input)
           rows == FEFOMatches(clinicId, drugIds)
       IN
       IF FEFOInputInvalid(input)
       THEN Throw(p, op, "Must provide either NDC or medication name with strength and unit")
       ELSE IF input.quantity <= 0 THEN Throw(p, op, "Quantity must be greater than 0")
       ELSE IF ~looked \/ drugIds = {} THEN Throw(p, op, "No medication found")
       ELSE IF ~fetched THEN Throw(p, op, "Failed to fetch units")
       ELSE IF rows = {} THEN Throw(p, op, "No units available for this medication")
       ELSE \E order \in FEFOOrders(rows) :
         LET found == [i \in 1..Cardinality(rows) |-> FEFORow(order[i])]
             totalAvailable ==
               SumSeq([i \in 1..Len(found) |-> found[i].available_quantity])
         IN
         IF totalAvailable < input.quantity
         THEN /\ pc' = [pc EXCEPT ![p] = "idle"]
              /\ loc' = [loc EXCEPT ![p] = NoLoc]
              /\ result' = [result EXCEPT ![p] =
                   [op |-> op, status |-> "Insufficient quantity",
                    available |-> totalAvailable, requested |-> input.quantity]]
         ELSE /\ pc' = [pc EXCEPT ![p] = "fefo_update"]
              /\ loc' = [loc EXCEPT ![p] =
                   [op |-> op, clinicId |-> clinicId, quantity |-> input.quantity,
                    units |-> found, i |-> 1,
                    remainingQuantity |-> input.quantity,
                    transactions |-> <<>>, unitsUsed |-> <<>>,
                    k |-> 0, rollbackAvailable |-> 0, cause |-> "none",
                    rollbackFailed |-> FALSE]]
              /\ result' = [result EXCEPT ![p] = NoResult]

\* lines 124-160: the unit's decrement; on failure the rollback of the
\* units already used starts
FEFOUpdate(p) ==
  /\ pc[p] = "fefo_update"
  /\ UNCHANGED inviteVars
  /\ UNCHANGED <<ledger, pre, hist, budget>>
  /\ LET l == loc[p]
         unit == l.units[l.i]
         quantityToTake == QuantityToTake(l.remainingQuantity, unit.available_quantity)
         newAvailableQuantity ==
           NewAvailableQuantity(unit.available_quantity, quantityToTake)
     IN
     \/ /\ units' = UpdateAvailable(units, unit.unit_id, l.clinicId, newAvailableQuantity)
        /\ Goto(p, "fefo_insert", l)
     \/ /\ UNCHANGED units
        /\ IF l.unitsUsed = <<>>
           THEN Throw(p, l.op, "Failed to update unit")
           ELSE Goto(p, "fefo_rollback_read",
                     [l EXCEPT !.k = 1, !.cause = "Failed to update unit"])

\* lines 162-237: the check_out transaction of the unit just decremented
FEFOInsert(p) ==
  /\ pc[p] = "fefo_insert"
  /\ UNCHANGED inviteVars
  /\ UNCHANGED <<units, pre, hist, budget>>
  /\ LET l == loc[p]
         unit == l.units[l.i]
         quantityToTake == QuantityToTake(l.remainingQuantity, unit.available_quantity)
         transaction ==
           NewTransaction("check_out", quantityToTake, unit.unit_id, l.clinicId,
                          FEFONote(Len(l.unitsUsed) + 1))
     IN
     \/ /\ ledger' = Append(ledger, transaction)
        /\ LET next ==
                 [l EXCEPT
                    !.transactions = Append(@, [transactionId |-> Len(ledger) + 1,
                                                type |-> transaction.type,
                                                quantity |-> transaction.quantity,
                                                unitId |-> transaction.unit_id,
                                                clinicId |-> transaction.clinic_id]),
                    !.unitsUsed = Append(@, [unitId |-> unit.unit_id,
                                             quantityTaken |-> quantityToTake,
                                             expiryDate |-> unit.expiry_date]),
                    !.remainingQuantity = @ - quantityToTake,
                    !.i = @ + 1]
           IN IF FEFOFinished(next)
              THEN FEFOReturn(p, next)
              ELSE Goto(p, "fefo_update", next)
     \/ /\ UNCHANGED ledger
        /\ IF l.unitsUsed = <<>>
           THEN Goto(p, "fefo_rollback_current",
                     [l EXCEPT !.cause = "Failed to create transaction"])
           ELSE Goto(p, "fefo_rollback_read",
                     [l EXCEPT !.k = 1, !.cause = "Failed to create transaction"])

\* a compensation that raises the failure of one of its own steps
FEFORollbackNext_Raise(p, l) ==
  IF l.rollbackFailed
  THEN /\ pc' = [pc EXCEPT ![p] = "idle"]
       /\ loc' = [loc EXCEPT ![p] = NoLoc]
       /\ result' = [result EXCEPT ![p] =
            [op |-> l.op, status |-> "Failed to restore unit",
             rollbackFailed |-> TRUE]]
  ELSE IF l.k < Len(l.unitsUsed)
  THEN Goto(p, "fefo_rollback_read", [l EXCEPT !.k = @ + 1])
  ELSE IF l.cause = "Failed to create transaction"
  THEN Goto(p, "fefo_rollback_current", l)
  ELSE /\ pc' = [pc EXCEPT ![p] = "idle"]
       /\ loc' = [loc EXCEPT ![p] = NoLoc]
       /\ result' = [result EXCEPT ![p] =
            [op |-> l.op, status |-> l.cause, rollbackFailed |-> l.rollbackFailed]]

\* after the k-th used unit's rollback: the next one, then the current unit
\* (transaction failure) or the throw (update failure)
FEFORollbackNext(p, l) ==
  IF l.k < Len(l.unitsUsed)
  THEN Goto(p, "fefo_rollback_read", [l EXCEPT !.k = @ + 1])
  ELSE IF l.cause = "Failed to create transaction"
  THEN Goto(p, "fefo_rollback_current", l)
  ELSE /\ pc' = [pc EXCEPT ![p] = "idle"]
       /\ loc' = [loc EXCEPT ![p] = NoLoc]
       /\ result' = [result EXCEPT ![p] =
            [op |-> l.op, status |-> l.cause, rollbackFailed |-> l.rollbackFailed]]

\* lines 142-147, 186-191: the re-read of a used unit
FEFORollbackRead(p) ==
  /\ pc[p] = "fefo_rollback_read"
  /\ UNCHANGED inviteVars
  /\ UNCHANGED <<units, ledger, pre, budget>>
  /\ LET l == loc[p]
         usedUnit == l.unitsUsed[l.k]
     IN
     \/ /\ Goto(p, "fefo_rollback_write",
                [l EXCEPT !.rollbackAvailable = units[usedUnit.unitId].available_quantity])
        /\ UNCHANGED hist
     \/ /\ FEFORollbackNext(p, [l EXCEPT !.rollbackFailed = TRUE])
        /\ hist' = hist \cup {"rollbackFailed"}

\* lines 149-157, 193-201: the used unit gets back what was taken from it
FEFORollbackWrite(p) ==
  /\ pc[p] = "fefo_rollback_write"
  /\ UNCHANGED inviteVars
  /\ UNCHANGED <<ledger, pre, budget>>
  /\ LET l == loc[p]
         usedUnit == l.unitsUsed[l.k]
     IN
     \/ /\ units' = UpdateAvailable(units, usedUnit.unitId, l.clinicId,
              RollbackQuantity(l.rollbackAvailable, usedUnit.quantityTaken))
        /\ FEFORollbackNext(p, l)
        /\ UNCHANGED hist
     \/ /\ UNCHANGED units
        /\ FEFORollbackNext(p, [l EXCEPT !.rollbackFailed = TRUE])
        /\ hist' = hist \cup {"rollbackFailed"}

\* lines 203-210: the current unit is written back to the quantity read by
\* the units query, and the call throws
FEFORollbackCurrent(p) ==
  /\ pc[p] = "fefo_rollback_current"
  /\ UNCHANGED inviteVars
  /\ UNCHANGED <<ledger, pre, budget>>
  /\ LET l == loc[p]
         unit == l.units[l.i]
     IN
     /\ pc' = [pc EXCEPT ![p] = "idle"]
     /\ loc' = [loc EXCEPT ![p] = NoLoc]
     /\ \/ /\ units' = UpdateAvailable(units, unit.unit_id, l.clinicId,
                                       unit.available_quantity)
           /\ UNCHANGED hist
           /\ result' = [result EXCEPT ![p] =
                [op |-> l.op, status |-> l.cause, rollbackFailed |-> l.rollbackFailed]]
        \/ /\ UNCHANGED units
           /\ hist' = hist \cup {"rollbackFailed"}
           /\ result' = [result EXCEPT ![p] =
                [op |-> l.op, status |-> l.cause, rollbackFailed |-> TRUE]]

checkOutMedicationFEFO(p) ==
  \/ FEFOStart(p)
  \/ FEFOUpdate(p)
  \/ FEFOInsert(p)
  \/ FEFORollbackRead(p)
  \/ FEFORollbackWrite(p)
  \/ FEFORollbackCurrent(p)

\* --------------------------------------------------------- checkOutUnit
CheckOutInputs ==
  {[unitId |-> u, quantity |-> q, notes |-> "dispensed"] :
     u \in 1..MaxUnits, q \in (-1)..MaxQty}

\* a read that forgets .eq('clinic_id', clinicId)
CheckOutUnitFound_AnyClinic(unitId, clinicId) == unitId \in UnitIds

\* lines 255-260: units.select('*').eq('unit_id').eq('clinic_id').single()
\* finds a row
CheckOutUnitFound(unitId, clinicId) ==
  unitId \in UnitIds /\ units[unitId].clinic_id = clinicId

\* lines 254-271: the unit's read and the quantity check; a read that fails
\* (unitError) throws the same 'Unit not found' as a read that finds no row
CheckOutUnitRead(p) ==
  \E input \in CheckOutInputs, clinicId \in Clinics, fetched \in BOOLEAN :
    /\ Begin(p, "checkOutUnit", input, clinicId)
    /\ UNCHANGED <<units, ledger, hist>>
    /\ LET op == "checkOutUnit"
           found == CheckOutUnitFound(input.unitId, clinicId)
       IN
       IF ~fetched
       THEN /\ pc' = [pc EXCEPT ![p] = "idle"]
            /\ loc' = [loc EXCEPT ![p] = NoLoc]
            /\ result' = [result EXCEPT ![p] =
                 [op |-> op, status |-> "Unit not found", unitError |-> TRUE]]
       ELSE IF ~found THEN Throw(p, op, "Unit not found")
       ELSE LET unit == units[input.unitId] IN
         IF unit.available_quantity < input.quantity
         THEN /\ pc' = [pc EXCEPT ![p] = "idle"]
              /\ loc' = [loc EXCEPT ![p] = NoLoc]
              /\ result' = [result EXCEPT ![p] =
                   [op |-> op, status |-> "Insufficient quantity",
                    available |-> unit.available_quantity,
                    requested |-> input.quantity]]
         ELSE /\ pc' = [pc EXCEPT ![p] = "checkout_update"]
              /\ loc' = [loc EXCEPT ![p] =
                   [op |-> op, clinicId |-> clinicId, input |-> input,
                    unit |-> [available_quantity |-> unit.available_quantity]]]
              /\ result' = [result EXCEPT ![p] = NoResult]

\* lines 273-288: the unit's decrement
CheckOutUnitUpdate(p) ==
  /\ pc[p] = "checkout_update"
  /\ UNCHANGED inviteVars
  /\ UNCHANGED <<ledger, pre, hist, budget>>
  /\ LET l == loc[p]
         newAvailableQuantity ==
           NewAvailableQuantity(l.unit.available_quantity, l.input.quantity)
     IN
     \/ /\ units' = UpdateAvailable(units, l.input.unitId, l.clinicId, newAvailableQuantity)
        /\ Goto(p, "checkout_insert", l)
     \/ /\ UNCHANGED units
        /\ Throw(p, l.op, "Failed to update unit")

\* lines 290-344: the check_out transaction
CheckOutUnitInsert(p) ==
  /\ pc[p] = "checkout_insert"
  /\ UNCHANGED inviteVars
  /\ UNCHANGED <<units, pre, hist, budget>>
  /\ LET l == loc[p]
         transaction ==
           NewTransaction("check_out", l.input.quantity, l.input.unitId,
                          l.clinicId, l.input.notes)
     IN
     \/ /\ ledger' = Append(ledger, transaction)
        /\ pc' = [pc EXCEPT ![p] = "idle"]
        /\ loc' = [loc EXCEPT ![p] = NoLoc]
        /\ result' = [result EXCEPT ![p] =
             [op |-> l.op, status |-> "ok",
              transaction |-> [transactionId |-> Len(ledger) + 1,
                               type |-> transaction.type,
                               quantity |-> transaction.quantity,
                               unitId |-> transaction.unit_id,
                               clinicId |-> transaction.clinic_id]]]
     \/ /\ UNCHANGED ledger
        /\ Goto(p, "checkout_rollback", l)

\* a rollback that writes the decremented quantity again
CheckOutRollbackQuantity_Decremented(l) ==
  l.unit.available_quantity - l.input.quantity

\* a rollback that adds the quantity back to what the unit holds now
CheckOutRollbackQuantity_AddBack(l) ==
  units[l.input.unitId].available_quantity + l.input.quantity

\* line 315: the quantity the rollback writes, unit.available_quantity
CheckOutRollbackQuantity(l) == l.unit.available_quantity

\* lines 312-319: the unit is written back to the quantity read, and the
\* call throws
CheckOutUnitRollback(p) ==
  /\ pc[p] = "checkout_rollback"
  /\ UNCHANGED inviteVars
  /\ UNCHANGED <<ledger, pre, budget>>
  /\ LET l == loc[p] IN
     /\ pc' = [pc EXCEPT ![p] = "idle"]
     /\ loc' = [loc EXCEPT ![p] = NoLoc]
     /\ \/ /\ units' = UpdateAvailable(units, l.input.unitId, l.clinicId,
                                       CheckOutRollbackQuantity(l))
           /\ UNCHANGED hist
           /\ result' = [result EXCEPT ![p] =
                [op |-> l.op, status |-> "Failed to create transaction",
                 rollbackFailed |-> FALSE]]
        \/ /\ UNCHANGED units
           /\ hist' = hist \cup {"rollbackFailed"}
           /\ result' = [result EXCEPT ![p] =
                [op |-> l.op, status |-> "Failed to create transaction",
                 rollbackFailed |-> TRUE]]

checkOutUnit(p) ==
  \/ CheckOutUnitRead(p)
  \/ CheckOutUnitUpdate(p)
  \/ CheckOutUnitInsert(p)
  \/ CheckOutUnitRollback(p)

\* ----------------------------------------------------------- createUnit
CreateUnitInputs ==
  {[totalQuantity |-> t, availableQuantity |-> a, lotId |-> l,
    expiryDate |-> e, drugId |-> d] :
     t \in 1..MaxQty, a \in 1..MaxQty, l \in LotIds, e \in ExpiryDates,
     d \in DrugIds}
  \cup {[totalQuantity |-> 1, availableQuantity |-> 1, lotId |-> "l1",
         expiryDate |-> 1]}

\* getLotById(lotId, clinicId): the lot, when it is the clinic's
LotFound(lotId, clinicId) ==
  lotId \in LotIds /\ Lots[lotId].clinic_id = clinicId

\* getLotCurrentCapacity(lotId): the sum of total_quantity over the lot's units
getLotCurrentCapacity(lotId) ==
  SumSeq([i \in 1..Len(units) |->
            IF units[i].lot_id = lotId THEN units[i].total_quantity ELSE 0])

\* a check that also rejects a unit that fills the lot exactly
ExceedsCapacity_AtLimit(newTotalCapacity, maxCapacity) ==
  newTotalCapacity >= maxCapacity

\* line 45: newTotalCapacity > lot.maxCapacity
ExceedsCapacity(newTotalCapacity, maxCapacity) ==
  newTotalCapacity > maxCapacity

\* lines 23-53: the drug, the lot and the lot's capacity
CreateUnitCheck(p) ==
  \E input \in CreateUnitInputs, clinicId \in Clinics :
    /\ Len(units) < MaxUnits
    /\ Begin(p, "createUnit", input, clinicId)
    /\ UNCHANGED <<units, ledger, hist>>
    /\ LET op == "createUnit" IN
       IF "drugId" \notin DOMAIN input
       THEN Throw(p, op, "Either drugId or drugData must be provided")
       ELSE IF ~LotFound(input.lotId, clinicId) THEN Throw(p, op, "Lot not found")
       ELSE LET lot == Lots[input.lotId]
                currentCapacity == getLotCurrentCapacity(input.lotId)
                newTotalCapacity == currentCapacity + input.totalQuantity
            IN
            IF lot.hasMax /\ ExceedsCapacity(newTotalCapacity, lot.maxCapacity)
            THEN /\ pc' = [pc EXCEPT ![p] = "idle"]
                 /\ loc' = [loc EXCEPT ![p] = NoLoc]
                 /\ result' = [result EXCEPT ![p] =
                      [op |-> op, status |-> "Would exceed lot capacity",
                       current |-> currentCapacity,
                       attempted |-> input.totalQuantity,
                       available |-> lot.maxCapacity - currentCapacity]]
            ELSE /\ pc' = [pc EXCEPT ![p] = "create_insert"]
                 /\ loc' = [loc EXCEPT ![p] =
                      [op |-> op, clinicId |-> clinicId, input |-> input,
                       unit_id |-> 0]]
                 /\ result' = [result EXCEPT ![p] = NoResult]

\* lines 55-84: the unit's insert
CreateUnitInsert(p) ==
  /\ pc[p] = "create_insert"
  /\ UNCHANGED inviteVars
  /\ UNCHANGED <<ledger, pre, budget>>
  /\ LET l == loc[p]
         unit == [total_quantity |-> l.input.totalQuantity,
                  available_quantity |-> l.input.availableQuantity,
                  lot_id |-> l.input.lotId,
                  expiry_date |-> l.input.expiryDate,
                  drug_id |-> l.input.drugId,
                  clinic_id |-> l.clinicId]
     IN
     \/ /\ units' = Append(units, unit)
        /\ hist' = IF unit.available_quantity = unit.total_quantity
                   THEN hist ELSE hist \cup {"partialCheckIn"}
        /\ Goto(p, "create_checkin", [l EXCEPT !.unit_id = Len(units) + 1])
     \/ /\ UNCHANGED <<units, hist>>
        /\ Throw(p, l.op, "Failed to create unit")

\* a check_in of what is available instead of the total
CheckInQuantity_Available(input) == input.availableQuantity

\* line 112: quantity: input.totalQuantity
CheckInQuantity(input) == input.totalQuantity

\* lines 107-153: the check_in transaction, whose failure is only logged
CreateUnitCheckIn(p) ==
  /\ pc[p] = "create_checkin"
  /\ UNCHANGED inviteVars
  /\ UNCHANGED <<units, pre, hist, budget>>
  /\ LET l == loc[p]
         unit == units[l.unit_id]
     IN
     /\ \/ ledger' = Append(ledger,
             NewTransaction("check_in", CheckInQuantity(l.input),
                            l.unit_id, l.clinicId, "Initial check-in"))
        \/ UNCHANGED ledger
     /\ pc' = [pc EXCEPT ![p] = "idle"]
     /\ loc' = [loc EXCEPT ![p] = NoLoc]
     /\ result' = [result EXCEPT ![p] =
          [op |-> l.op, status |-> "ok",
           unit |-> [unitId |-> l.unit_id,
                     totalQuantity |-> unit.total_quantity,
                     availableQuantity |-> unit.available_quantity]]]

createUnit(p) ==
  \/ CreateUnitCheck(p)
  \/ CreateUnitInsert(p)
  \/ CreateUnitCheckIn(p)

\* ----------------------------------------------------------- updateUnit
UpdateUnitInputs ==
  {[unitId |-> u] : u \in 1..MaxUnits}
  \X ({[x \in {} |-> 0]}
      \cup {[totalQuantity |-> t] : t \in 1..MaxQty}
      \cup {[availableQuantity |-> a] : a \in 0..MaxQty}
      \cup {[expiryDate |-> e] : e \in ExpiryDates})

\* lines 351-356: the columns the update writes
UpdateData(row, updates) ==
  [row EXCEPT
     !.total_quantity =
        IF "totalQuantity" \in DOMAIN updates THEN updates.totalQuantity ELSE @,
     !.available_quantity =
        IF "availableQuantity" \in DOMAIN updates THEN updates.availableQuantity ELSE @,
     !.expiry_date =
        IF "expiryDate" \in DOMAIN updates THEN updates.expiryDate ELSE @]

\* lines 342-377: one update of the clinic's unit; no row or a storage error
\* throws
updateUnit(p) ==
  \E input \in UpdateUnitInputs, clinicId \in Clinics, stored \in BOOLEAN :
    /\ Begin(p, "updateUnit", input, clinicId)
    /\ UNCHANGED <<ledger, loc, pc>>
    /\ LET unitId == input[1].unitId
           updates == input[2]
           found == unitId \in UnitIds /\ units[unitId].clinic_id = clinicId
       IN
       IF stored /\ found
       THEN /\ units' = [units EXCEPT ![unitId] = UpdateData(@, updates)]
            /\ hist' = hist \cup {"updateUnit"}
            /\ result' = [result EXCEPT ![p] =
                 [op |-> "updateUnit", status |-> "ok",
                  unit |-> [unitId |-> unitId,
                            totalQuantity |-> units'[unitId].total_quantity,
                            availableQuantity |-> units'[unitId].available_quantity]]]
       ELSE /\ UNCHANGED <<units, hist>>
            /\ result' = [result EXCEPT ![p] =
                 [op |-> "updateUnit", status |-> "Failed to update unit",
                  rollbackFailed |-> FALSE]]

\* ---------------------------------------------------------- getUnitById
\* a read that forgets .eq('clinic_id', clinicId)
SelectUnit_AnyClinic(unitId, clinicId) ==
  IF unitId \in UnitIds THEN {unitId} ELSE {}

\* unitService.ts lines 157-166: units.select.eq('unit_id').eq('clinic_id')
\* .single(): the row, if there is one
SelectUnit(unitId, clinicId) ==
  IF unitId \in UnitIds /\ units[unitId].clinic_id = clinicId
  THEN {unitId} ELSE {}

\* formatUnit: the unit as the service returns it
FormatUnit(u) ==
  [unitId |-> u, totalQuantity |-> units[u].total_quantity,
   availableQuantity |-> units[u].available_quantity,
   clinicId |-> units[u].clinic_id]

\* unitService.ts lines 156-174: the clinic's unit, or null
getUnitById(p) ==
  \E unitId \in 1..MaxUnits, clinicId \in Clinics, fetched \in BOOLEAN :
    /\ Begin(p, "getUnitById", [unitId |-> unitId], clinicId)
    /\ UNCHANGED <<units, ledger, hist, pc, loc>>
    /\ LET rows == SelectUnit(unitId, clinicId) IN
       IF ~fetched \/ rows = {}
       THEN result' = [result EXCEPT ![p] = [op |-> "getUnitById", status |-> "null"]]
       ELSE result' = [result EXCEPT ![p] =
              [op |-> "getUnitById", status |-> "ok",
               unit |-> FormatUnit(CHOOSE u \in rows : TRUE)]]

\* ------------------------------------------------- transaction queries
\* formatTransaction: the ledger row i as the service returns it
FormatTransaction(tbl, i) ==
  [transactionId |-> i, type |-> tbl[i].type, quantity |-> tbl[i].quantity,
   unitId |-> tbl[i].unit_id, clinicId |-> tbl[i].clinic_id,
   notes |-> tbl[i].notes,
   unit |-> [unitId |-> tbl[i].unit_id,
             clinicId |-> units[tbl[i].unit_id].clinic_id]]

RECURSIVE Reverse(_)
\* .order('timestamp', {ascending: false}) on rows held in insertion order
Reverse(s) == IF s = <<>> THEN <<>> ELSE Append(Reverse(Tail(s)), s[1])

\* the optional unitId filter of getTransactions: 0 stands for "not given"
TransactionFilters == 0..MaxUnits

\* transactionService.ts lines 352-369: the clinic's transactions, of one
\* unit when unitId is given, newest first
SelectTransactions(clinicId, unitId) ==
  Reverse(SelectSeq([i \in 1..Len(ledger) |-> i],
                    LAMBDA i : /\ ledger[i].clinic_id = clinicId
                               /\ (unitId # 0 => ledger[i].unit_id = unitId)))

\* transactionService.ts lines 349-407, with the default page (1, of 50
\* rows) and no search text
getTransactions(p) ==
  \E clinicId \in Clinics, unitId \in TransactionFilters, fetched \in BOOLEAN :
    /\ Begin(p, "getTransactions", [unitId |-> unitId], clinicId)
    /\ UNCHANGED <<units, ledger, hist, pc, loc>>
    /\ IF ~fetched
       THEN result' = [result EXCEPT ![p] =
              [op |-> "getTransactions", status |-> "Failed to get transactions"]]
       ELSE LET ids == SelectTransactions(clinicId, unitId) IN
            result' = [result EXCEPT ![p] =
              [op |-> "getTransactions", status |-> "ok",
               transactions |->
                 [k \in 1..Len(ids) |-> FormatTransaction(ledger, ids[k])],
               total |-> Len(ids)]]

\* the transaction ids a request may name
TransactionIds == 1..(2 * MaxUnits)

\* a selection that forgets .eq('clinic_id', clinicId)
SelectTransaction_AnyClinic(transactionId, clinicId) ==
  IF transactionId \in 1..Len(ledger) THEN {transactionId} ELSE {}

\* transactionService.ts lines 416-425: transactions.select
\* .eq('transaction_id').eq('clinic_id').single(): the row, if there is one
SelectTransaction(transactionId, clinicId) ==
  IF transactionId \in 1..Len(ledger) /\ ledger[transactionId].clinic_id = clinicId
  THEN {transactionId} ELSE {}

\* transactionService.ts lines 412-432: the clinic's transaction, or null
getTransactionById(p) ==
  \E transactionId \in TransactionIds, clinicId \in Clinics, fetched \in BOOLEAN :
    /\ Begin(p, "getTransactionById", [transactionId |-> transactionId], clinicId)
    /\ UNCHANGED <<units, ledger, hist, pc, loc>>
    /\ LET rows == SelectTransaction(transactionId, clinicId) IN
       IF ~fetched \/ rows = {}
       THEN result' = [result EXCEPT ![p] =
              [op |-> "getTransactionById", status |-> "null"]]
       ELSE result' = [result EXCEPT ![p] =
              [op |-> "getTransactionById", status |-> "ok",
               transaction |-> FormatTransaction(ledger, CHOOSE i \in rows : TRUE)]]

\* the corrections an updateTransaction request may carry
TransactionUpdates ==
  {[x \in {} |-> 0]}
  \cup {[quantity |-> q] : q \in 0..MaxQty}
  \cup {[notes |-> "corrected"]}
  \cup {[quantity |-> q, notes |-> "corrected"] : q \in {MaxQty}}

\* transactionService.ts lines 451-454: the columns the update writes
TransactionUpdateData(row, updates) ==
  [row EXCEPT
     !.quantity = IF "quantity" \in DOMAIN updates THEN updates.quantity ELSE @,
     !.notes = IF "notes" \in DOMAIN updates THEN updates.notes ELSE @]

\* transactionService.ts lines 443-473: one update of the clinic's
\* transaction; no row or a storage error throws
updateTransaction(p) ==
  \E transactionId \in TransactionIds, updates \in TransactionUpdates,
     clinicId \in Clinics, stored \in BOOLEAN :
    /\ Begin(p, "updateTransaction",
             [transactionId |-> transactionId, updates |-> updates], clinicId)
    /\ UNCHANGED <<units, hist, pc, loc>>
    /\ LET rows == SelectTransaction(transactionId, clinicId) IN
       IF stored /\ rows # {}
       THEN /\ ledger' = [ledger EXCEPT
                            ![transactionId] = TransactionUpdateData(@, updates)]
            /\ result' = [result EXCEPT ![p] =
                 [op |-> "updateTransaction", status |-> "ok",
                  transaction |-> FormatTransaction(ledger', transactionId)]]
       ELSE /\ UNCHANGED ledger
            /\ result' = [result EXCEPT ![p] =
                 [op |-> "updateTransaction",
                  status |-> "Failed to update transaction"]]

\* ------------------------------------------------------ getUnitsAdvanced
\* the days of a common year before each month
DaysBeforeMonth == <<0, 31, 59, 90, 120, 151, 181, 212, 243, 273, 304, 334>>

\* the day number of a yyyymmdd date of 2024 or 2025, counted from the last
\* day of 2023 (2024 is a leap year): date comparison and setDate(+n) work
\* on these
DayNumber(d) ==
  LET y == d \div 10000
      m == (d \div 100) % 100
      dd == d % 100
  IN (y - 2024) * 365 + (IF y > 2024 THEN 1 ELSE 0)
     + DaysBeforeMonth[m] + (IF y = 2024 /\ m > 2 THEN 1 ELSE 0) + dd

\* the days the call may run on (2024-12-30 and 2025-03-15)
Todays == {20241230, 20250315}

ExpirationWindows ==
  {"EXPIRED", "EXPIRING_7_DAYS", "EXPIRING_30_DAYS", "EXPIRING_60_DAYS",
   "EXPIRING_90_DAYS", "ALL"}

WindowDays(window) ==
  CASE window = "EXPIRING_7_DAYS" -> 7
    [] window = "EXPIRING_30_DAYS" -> 30
    [] window = "EXPIRING_60_DAYS" -> 60
    [] window = "EXPIRING_90_DAYS" -> 90
    [] OTHER -> 0

\* lines 527-558: the expiration-window filter put on the query
WindowSelects(filters, expiry, today) ==
  \/ "expirationWindow" \notin DOMAIN filters
  \/ filters.expirationWindow = "ALL"
  \/ /\ filters.expirationWindow = "EXPIRED"
     /\ DayNumber(expiry) < DayNumber(today)
  \/ /\ filters.expirationWindow \notin {"EXPIRED", "ALL"}
     /\ DayNumber(expiry) >= DayNumber(today)
     /\ DayNumber(expiry) <= DayNumber(today) + WindowDays(filters.expirationWindow)

\* lines 561-567: the explicit date range put on the same query
RangeSelects(filters, expiry) ==
  /\ "expiryDateFrom" \in DOMAIN filters =>
       DayNumber(expiry) >= DayNumber(filters.expiryDateFrom)
  /\ "expiryDateTo" \in DOMAIN filters =>
       DayNumber(expiry) <= DayNumber(filters.expiryDateTo)

\* the filters of a request: an optional window and an optional date range
\* (no location, strength, name or NDC filter; default sort and page)
AdvancedFilters ==
  LET windows == {[x \in {} |-> 0]}
                 \cup {[expirationWindow |-> w] : w \in ExpirationWindows}
      ranges == {[x \in {} |-> 0]}
                \cup {[expiryDateFrom |-> 20241201, expiryDateTo |-> 20250331],
                      [expiryDateFrom |-> 20250101, expiryDateTo |-> 20251231],
                      [expiryDateFrom |-> 20250102],
                      [expiryDateTo |-> 20250101]}
  IN {w @@ r : w \in windows, r \in ranges}

\* lines 517-567: the rows the query selects
AdvancedMatches(clinicId, filters, today) ==
  {u \in UnitIds : /\ units[u].clinic_id = clinicId
                   /\ WindowSelects(filters, units[u].expiry_date, today)
                   /\ RangeSelects(filters, units[u].expiry_date)}

\* unitService.ts lines 495-676, sorted by expiry date ascending (the
\* default) on the default page
getUnitsAdvanced(p) ==
  \E clinicId \in Clinics, filters \in AdvancedFilters, today \in Todays,
     fetched \in BOOLEAN :
    /\ Begin(p, "getUnitsAdvanced", [filters |-> filters, today |-> today], clinicId)
    /\ UNCHANGED <<units, ledger, hist, pc, loc>>
    /\ IF ~fetched
       THEN result' = [result EXCEPT ![p] =
              [op |-> "getUnitsAdvanced", status |-> "Failed to get units"]]
       ELSE LET rows == AdvancedMatches(clinicId, filters, today) IN
            \E order \in FEFOOrders(rows) :
              result' = [result EXCEPT ![p] =
                [op |-> "getUnitsAdvanced", status |-> "ok",
                 units |-> [i \in 1..Cardinality(rows) |-> FormatUnit(order[i])],
                 total |-> Cardinality(rows)]]

\* ---------------------------------------------------- invitationService
\* the e-mail addresses invitations are sent to
Emails == {"a@x.org"}

\* the roles a request may name; only admin and employee are accepted
UserRoles == {"admin", "employee", "owner"}

\* the days of the clock
Times == 0..MaxTime

\* unitService.ts lines 911, 1241: an invitation is extended by 7 days
InvitationDays == 7

\* invitation_id and invitation_token are generated by the table: both are
\* modelled by the row's index
InvitationTokens == 1..MaxInvitations

\* the start of a call of the invitation service: it touches neither the
\* inventory nor a handler in flight
BeginInvitation(p, input, clinicId) ==
  /\ pc[p] = "idle"
  /\ budget > 0
  /\ budget' = budget - 1
  /\ pre' = [pre EXCEPT ![p] = [units |-> units, ledger |-> ledger,
                                 input |-> input, clinicId |-> clinicId]]
  /\ UNCHANGED <<units, ledger, pc, loc, hist>>

\* what a call of the invitation service returned or threw
InvitationResult(p, op, status) ==
  result' = [result EXCEPT ![p] = [op |-> op, status |-> status]]

\* unitService.ts lines 1283-1314: formatInvitation
FormatInvitation(i) ==
  [invitationId |-> i,
   email |-> invitations[i].email,
   clinicId |-> invitations[i].clinic_id,
   userRole |-> invitations[i].user_role,
   status |-> invitations[i].status,
   invitationToken |-> i,
   createdAt |-> invitations[i].created_at,
   expiresAt |-> invitations[i].expires_at,
   acceptedAt |-> invitations[i].accepted_at]

\* lines 897-903: the invitations of the e-mail and clinic with status
\* 'invited'; .single() yields a row only when there is exactly one
ActiveInvitations(email, clinicId) ==
  {i \in 1..Len(invitations) :
     /\ invitations[i].email = email
     /\ invitations[i].clinic_id = clinicId
     /\ invitations[i].status = "invited"}

\* lines 873-949: sendInvitation. The row's expires_at on insert is the
\* table's default, taken to be the 7 days of the resend path.
sendInvitation(p) ==
  \E email \in Emails, userRole \in UserRoles, clinicId \in Clinics,
     userFetched \in BOOLEAN, invitationFetched \in BOOLEAN, stored \in BOOLEAN :
    /\ BeginInvitation(p, [email |-> email, userRole |-> userRole], clinicId)
    /\ UNCHANGED <<users, now>>
    /\ LET existing == ActiveInvitations(email, clinicId) IN
       IF userRole \notin {"admin", "employee"}
       THEN /\ InvitationResult(p, "sendInvitation", "Invalid user role")
            /\ UNCHANGED invitations
       ELSE IF userFetched /\ <<email, clinicId>> \in users
       THEN /\ InvitationResult(p, "sendInvitation",
                                "User with this email already exists in this clinic.")
            /\ UNCHANGED invitations
       ELSE IF invitationFetched /\ Cardinality(existing) = 1
       THEN IF stored
            THEN /\ invitations' =
                      [invitations EXCEPT
                         ![CHOOSE i \in existing : TRUE] =
                            [@ EXCEPT !.expires_at = now + InvitationDays,
                                      !.created_at = now]]
                 /\ InvitationResult(p, "sendInvitation", "ok")
            ELSE /\ InvitationResult(p, "sendInvitation", "Failed to update invitation")
                 /\ UNCHANGED invitations
       ELSE IF stored
       THEN /\ Len(invitations) < MaxInvitations
            /\ invitations' =
                 Append(invitations,
                        [email |-> email, clinic_id |-> clinicId,
                         user_role |-> userRole, status |-> "invited",
                         created_at |-> now,
                         expires_at |-> now + InvitationDays,
                         accepted_at |-> -1])
            /\ InvitationResult(p, "sendInvitation", "ok")
       ELSE /\ InvitationResult(p, "sendInvitation", "Failed to create invitation")
            /\ UNCHANGED invitations

\* line 1039: new Date(invitation.expires_at) < new Date()
InvitationExpired(invitation, time) == invitation.expires_at < time

\* lines 1023-1049: getInvitationByToken, as the outcome of the lookup and
\* the invitations table it leaves: an expired invitation is marked
\* 'expired' (the update's result is not inspected) and the call throws
GetInvitationByToken(invitationToken, fetched, marked) ==
  IF ~fetched \/ invitationToken \notin 1..Len(invitations)
  THEN [outcome |-> "null", table |-> invitations]
  ELSE IF InvitationExpired(invitations[invitationToken], now)
  THEN [outcome |-> "This invitation has expired.",
        table |-> IF marked
                  THEN [invitations EXCEPT ![invitationToken].status = "expired"]
                  ELSE invitations]
  ELSE [outcome |-> "ok", table |-> invitations]

getInvitationByToken(p) ==
  \E invitationToken \in InvitationTokens, fetched \in BOOLEAN, marked \in BOOLEAN :
    /\ BeginInvitation(p, [invitationToken |-> invitationToken], "none")
    /\ UNCHANGED <<users, now>>
    /\ LET got == GetInvitationByToken(invitationToken, fetched, marked) IN
       /\ invitations' = got.table
       /\ IF got.outcome = "ok"
          THEN result' = [result EXCEPT ![p] =
                 [op |-> "getInvitationByToken", status |-> "ok",
                  invitation |-> FormatInvitation(invitationToken)]]
          ELSE InvitationResult(p, "getInvitationByToken", got.outcome)

\* the storage and authentication calls of acceptInvitation whose failure
\* makes it throw, and "none"
AcceptFailures ==
  {"none", "Invalid password", "Failed to add user to clinic",
   "Failed to create user", "Failed to create user record",
   "Failed to sign in", "Failed to fetch clinic", "Failed to fetch updated user"}

\* the failures met by a user who has an account (lines 1077-1099), by one
\* who has none (1100-1153), and after the invitation is marked (1165-1185)
ExistingUserFailures == {"Invalid password", "Failed to add user to clinic"}
NewUserFailures ==
  {"Failed to create user", "Failed to create user record",
   "Failed to add user to clinic", "Failed to sign in"}
LateFailures == {"Failed to fetch clinic", "Failed to fetch updated user"}

\* lines 1054-1216: acceptInvitation. The update that marks the invitation
\* 'accepted' (1156-1163) is awaited but its result is not inspected.
acceptInvitation(p) ==
  \E invitationToken \in InvitationTokens, fetched \in BOOLEAN, marked \in BOOLEAN,
     userFetched \in BOOLEAN, failure \in AcceptFailures, accepted \in BOOLEAN :
    /\ BeginInvitation(p, [invitationToken |-> invitationToken], "none")
    /\ UNCHANGED now
    /\ LET got == GetInvitationByToken(invitationToken, fetched, marked)
           invitation == got.table[invitationToken]
           existingUser ==
             userFetched /\ \E c \in Clinics : <<invitation.email, c>> \in users
           member == <<invitation.email, invitation.clinic_id>>
           early == IF existingUser THEN ExistingUserFailures ELSE NewUserFailures
       IN
       IF got.outcome = "null"
       THEN /\ InvitationResult(p, "acceptInvitation", "Invalid invitation token.")
            /\ UNCHANGED <<invitations, users>>
       ELSE IF got.outcome # "ok"
       THEN /\ InvitationResult(p, "acceptInvitation", got.outcome)
            /\ invitations' = got.table
            /\ UNCHANGED users
       ELSE IF invitation.status # "invited"
       THEN /\ InvitationResult(p, "acceptInvitation",
                                "This invitation has already been used or expired.")
            /\ UNCHANGED <<invitations, users>>
       ELSE IF failure \in early
       THEN /\ InvitationResult(p, "acceptInvitation", failure)
            /\ UNCHANGED invitations
            /\ users' = IF ~existingUser
                           /\ failure \in {"Failed to add user to clinic",
                                           "Failed to sign in"}
                        THEN users \cup {member} ELSE users
       ELSE /\ users' = users \cup {member}
            /\ invitations' =
                 IF accepted
                 THEN [invitations EXCEPT
                         ![invitationToken] =
                            [@ EXCEPT !.status = "accepted", !.accepted_at = now]]
                 ELSE invitations
            /\ IF failure \in LateFailures
               THEN InvitationResult(p, "acceptInvitation", failure)
               ELSE InvitationResult(p, "acceptInvitation", "ok")

\* lines 1221-1261: resendInvitation
resendInvitation(p) ==
  \E invitationId \in InvitationTokens, clinicId \in Clinics,
     fetched \in BOOLEAN, stored \in BOOLEAN :
    /\ BeginInvitation(p, [invitationId |-> invitationId], clinicId)
    /\ UNCHANGED <<users, now>>
    /\ IF \/ ~fetched
          \/ invitationId \notin 1..Len(invitations)
          \/ invitations[invitationId].clinic_id # clinicId
       THEN /\ InvitationResult(p, "resendInvitation", "Invitation not found.")
            /\ UNCHANGED invitations
       ELSE IF invitations[invitationId].status # "invited"
       THEN /\ InvitationResult(p, "resendInvitation",
                 "Cannot resend an invitation that has been accepted or expired.")
            /\ UNCHANGED invitations
       ELSE IF stored
       THEN /\ invitations' =
                 [invitations EXCEPT
                    ![invitationId] =
                       [@ EXCEPT !.expires_at = now + InvitationDays,
                                 !.created_at = now]]
            /\ InvitationResult(p, "resendInvitation", "ok")
       ELSE /\ InvitationResult(p, "resendInvitation", "Failed to resend invitation")
            /\ UNCHANGED invitations

\* the days that pass at a time: less than the 7 days of an invitation
TickDays == 4

\* time passes between two calls
Tick ==
  /\ now + TickDays \in Times
  /\ now' = now + TickDays
  /\ UNCHANGED <<units, ledger, pc, loc, result, pre, hist, budget,
                 invitations, users>>

\* --------------------------------------------------------------- system
\* no invitation has been sent and nobody has an account
NoInvitations ==
  /\ invitations = <<>>
  /\ users = {}
  /\ now = 0

Init ==
  /\ units = <<>>
  /\ ledger = <<>>
  /\ pc = [p \in Procs |-> "idle"]
  /\ loc = [p \in Procs |-> NoLoc]
  /\ result = [p \in Procs |-> NoResult]
  /\ pre = [p \in Procs |-> [units |-> <<>>, ledger |-> <<>>,
                             input |-> [quantity |-> 0], clinicId |-> "c1"]]
  /\ hist = {}
  /\ budget = MaxCalls
  /\ NoInvitations

\* ------------------------------------------------- a stocked inventory
\* Units as createUnit stores them on a full check-in of MaxQty: clinic c1
\* holds both drugs in its lot l1, and checkOutUnit calls have dispensed a
\* part of them; clinic c2 holds untouched units of d1 in its lot l2.
StockedUnits ==
  {[total_quantity |-> MaxQty, available_quantity |-> a, lot_id |-> "l1",
    expiry_date |-> e, drug_id |-> d, clinic_id |-> "c1"] :
     a \in 0..MaxQty, e \in ExpiryDates, d \in DrugIds}
  \cup {[total_quantity |-> MaxQty, available_quantity |-> MaxQty,
         lot_id |-> "l2", expiry_date |-> 20250101, drug_id |-> "d1",
         clinic_id |-> "c2"]}

\* no lot holds more than its configured maximum
WithinCapacity(tbl) ==
  \A l \in LotIds :
    Lots[l].hasMax =>
      SumSeq([i \in 1..Len(tbl) |->
                IF tbl[i].lot_id = l THEN tbl[i].total_quantity ELSE 0])
        <= Lots[l].maxCapacity

StockedTables ==
  {tbl \in UNION {[1..n -> StockedUnits] : n \in 0..MaxUnits} : WithinCapacity(tbl)}

\* the ledger of a stocked inventory: every unit's check_in, then the
\* check_out of what was dispensed from it
StockedLedger(tbl) ==
  [i \in 1..Len(tbl) |->
     NewTransaction("check_in", tbl[i].total_quantity, i, tbl[i].clinic_id,
                    "Initial check-in")]
  \o SelectSeq(
       [i \in 1..Len(tbl) |->
          NewTransaction("check_out",
                         tbl[i].total_quantity - tbl[i].available_quantity,
                         i, tbl[i].clinic_id, "dispensed")],
       LAMBDA t : t.quantity > 0)

InitStocked ==
  /\ units \in StockedTables
  /\ ledger = StockedLedger(units)
  /\ pc = [p \in Procs |-> "idle"]
  /\ loc = [p \in Procs |-> NoLoc]
  /\ result = [p \in Procs |-> NoResult]
  /\ pre = [p \in Procs |-> [units |-> <<>>, ledger |-> <<>>,
                             input |-> [quantity |-> 0], clinicId |-> "c1"]]
  /\ hist = {}
  /\ budget = 1
  /\ NoInvitations

\* one checkOutMedicationFEFO call, run alone on a stocked inventory
NextFEFO == checkOutMedicationFEFO(1)

SpecFEFO == InitStocked /\ [][NextFEFO]_vars

\* one checkOutUnit call, run alone on a stocked inventory
NextCheckOut == checkOutUnit(1)

SpecCheckOut == InitStocked /\ [][NextCheckOut]_vars

\* one createUnit call, run alone on a stocked inventory
NextCreate == createUnit(1)

SpecCreate == InitStocked /\ [][NextCreate]_vars

\* an empty inventory on which one call per request may start
InitPair ==
  /\ units = <<>>
  /\ ledger = <<>>
  /\ pc = [p \in Procs |-> "idle"]
  /\ loc = [p \in Procs |-> NoLoc]
  /\ result = [p \in Procs |-> NoResult]
  /\ pre = [p \in Procs |-> [units |-> <<>>, ledger |-> <<>>,
                             input |-> [quantity |-> 0], clinicId |-> "c1"]]
  /\ hist = {}
  /\ budget = Cardinality(Procs)
  /\ NoInvitations

\* two requests whose createUnit calls interleave at their storage calls,
\* starting from an empty inventory
NextCreateRace == createUnit(1) \/ createUnit(2)

SpecCreateRace == InitPair /\ [][NextCreateRace]_vars

\* Units of drug d1 that clinic c1 holds in its lot l1, all of one expiry
\* date, as a full check-in of MaxQty leaves them
SharedUnits ==
  {[total_quantity |-> MaxQty, available_quantity |-> MaxQty, lot_id |-> "l1",
    expiry_date |-> 20250101, drug_id |-> "d1", clinic_id |-> "c1"]}

SharedTables == UNION {[1..n -> SharedUnits] : n \in 1..MaxUnits}

\* a stocked inventory on which one call per request may start
InitShared ==
  /\ units \in SharedTables
  /\ ledger = StockedLedger(units)
  /\ pc = [p \in Procs |-> "idle"]
  /\ loc = [p \in Procs |-> NoLoc]
  /\ result = [p \in Procs |-> NoResult]
  /\ pre = [p \in Procs |-> [units |-> <<>>, ledger |-> <<>>,
                             input |-> [quantity |-> 0], clinicId |-> "c1"]]
  /\ hist = {}
  /\ budget = Cardinality(Procs)
  /\ NoInvitations

\* two requests whose checkouts interleave at their storage calls
NextCheckOutRace ==
  \/ checkOutUnit(1)
  \/ checkOutUnit(2)
  \/ checkOutMedicationFEFO(1)
  \/ checkOutMedicationFEFO(2)

SpecCheckOutRace == InitShared /\ [][NextCheckOutRace]_vars

\* Units of the two clinics: clinic c1 holds units of drug d1 in its lot l1,
\* partly dispensed by checkOutUnit calls or untouched; clinic c2 holds
\* untouched units of d1 in its lot l2.
ClinicUnits ==
  {[total_quantity |-> MaxQty, available_quantity |-> a, lot_id |-> "l1",
    expiry_date |-> 20250101, drug_id |-> "d1", clinic_id |-> "c1"] :
     a \in 1..MaxQty}
  \cup {[total_quantity |-> MaxQty, available_quantity |-> MaxQty,
         lot_id |-> "l2", expiry_date |-> 20250101, drug_id |-> "d1",
         clinic_id |-> "c2"]}

ClinicTables ==
  {tbl \in UNION {[1..n -> ClinicUnits] : n \in 0..MaxUnits} : WithinCapacity(tbl)}

\* an inventory of the two clinics on which one call may start
InitClinics ==
  /\ units \in ClinicTables
  /\ ledger = StockedLedger(units)
  /\ pc = [p \in Procs |-> "idle"]
  /\ loc = [p \in Procs |-> NoLoc]
  /\ result = [p \in Procs |-> NoResult]
  /\ pre = [p \in Procs |-> [units |-> <<>>, ledger |-> <<>>,
                             input |-> [quantity |-> 0], clinicId |-> "c1"]]
  /\ hist = {}
  /\ budget = 1
  /\ NoInvitations

\* one call of any operation of the unit store and the ledger, run alone on
\* an inventory of the two clinics
NextStore ==
  \/ createUnit(1)
  \/ getUnitById(1)
  \/ updateUnit(1)
  \/ checkOutUnit(1)
  \/ checkOutMedicationFEFO(1)
  \/ getTransactions(1)
  \/ getTransactionById(1)
  \/ updateTransaction(1)

SpecStore == InitClinics /\ [][NextStore]_vars

\* one getUnitsAdvanced call on a stocked inventory
NextAdvanced == getUnitsAdvanced(1)

SpecAdvanced == InitStocked /\ [][NextAdvanced]_vars

\* no invitation yet; the invited person may have an account in clinic c2
InitInvite ==
  /\ units = <<>>
  /\ ledger = <<>>
  /\ pc = [p \in Procs |-> "idle"]
  /\ loc = [p \in Procs |-> NoLoc]
  /\ result = [p \in Procs |-> NoResult]
  /\ pre = [p \in Procs |-> [units |-> <<>>, ledger |-> <<>>,
                             input |-> [quantity |-> 0], clinicId |-> "c1"]]
  /\ hist = {}
  /\ budget = MaxCalls
  /\ invitations = <<>>
  /\ users \in {{}, {<<e, "c2">> : e \in Emails}}
  /\ now = 0

\* the calls of the invitation service, one at a time, as time passes
NextInvite ==
  \/ sendInvitation(1)
  \/ getInvitationByToken(1)
  \/ acceptInvitation(1)
  \/ resendInvitation(1)
  \/ Tick

SpecInvite == InitInvite /\ [][NextInvite]_vars

\* one request at a time: request 1 runs each call to its end before the next
Next ==
  \/ createUnit(1)
  \/ updateUnit(1)
  \/ checkOutUnit(1)
  \/ checkOutMedicationFEFO(1)

Spec == Init /\ [][Next]_vars

\* ================================================================ claims
\* The call under study is request 1's: R is what it returned or threw, P
\* the tables and the request as they were when it started.
R == result[1]
P == pre[1]

Returned(op) == pc[1] = "idle" /\ R.op = op
Succeeded(op) == Returned(op) /\ R.status = "ok"

\* the walk failed at a unit's update or transaction insert
WalkFailed ==
  /\ Returned("checkOutMedicationFEFO")
  /\ R.status \in {"Failed to update unit", "Failed to create transaction"}

\* the candidate units of the request, read off the tables before the call
Candidates ==
  {u \in 1..Len(P.units) :
     /\ P.units[u].clinic_id = P.clinicId
     /\ P.units[u].available_quantity > 0
     /\ P.units[u].drug_id \in FEFODrugIds(P.input)}

RECURSIVE SumAvailable(_)
SumAvailable(S) ==
  IF S = {} THEN 0
  ELSE LET u == CHOOSE x \in S : TRUE
       IN P.units[u].available_quantity + SumAvailable(S \ {u})

\* the request passes validation, its drug exists, and the units query answered
Resolved ==
  /\ Returned("checkOutMedicationFEFO")
  /\ ~FEFOInputInvalid(P.input)
  /\ P.input.quantity > 0
  /\ FEFODrugIds(P.input) # {}
  /\ R.status \notin {"No medication found", "Failed to fetch units"}

Unchanged == units = P.units /\ ledger = P.ledger

\* C1: a successful checkOutMedicationFEFO of quantity Q has unitsUsed whose
\* quantityTaken sum to totalQuantityDispensed, which is Q, and its unitsUsed
\* are in non-decreasing expiry-date order.
C1_SumAndExpiryOrder ==
  Succeeded("checkOutMedicationFEFO") =>
    LET used == R.unitsUsed IN
    /\ SumSeq([i \in 1..Len(used) |-> used[i].quantityTaken]) = R.totalQuantityDispensed
    /\ R.totalQuantityDispensed = P.input.quantity
    /\ \A i, j \in 1..Len(used) :
         i < j => /\ used[i].expiryDate <= used[j].expiryDate
                  /\ P.units[used[i].unitId].expiry_date
                       <= P.units[used[j].unitId].expiry_date

\* a successful allocation over two units of different expiry dates
C1_Witness ==
  /\ Succeeded("checkOutMedicationFEFO")
  /\ Len(R.unitsUsed) >= 2
  /\ R.unitsUsed[1].expiryDate < R.unitsUsed[2].expiryDate
  /\ R.unitsUsed[1].unitId > R.unitsUsed[2].unitId

\* C2 as claimed: whenever the candidates' available quantities sum to less
\* than Q (no candidate included), the call fails with "Insufficient
\* quantity" reporting available and requested, and nothing is changed.
C2_Original ==
  (Resolved /\ SumAvailable(Candidates) < P.input.quantity) =>
    /\ R.status = "Insufficient quantity"
    /\ R.available = SumAvailable(Candidates)
    /\ R.requested = P.input.quantity
    /\ Unchanged

\* C2 amended: with at least one candidate and a sum below Q the call fails
\* with "Insufficient quantity" reporting available and requested; with no
\* candidate it fails with "No units available for this medication", which
\* reports no figures; in both cases no unit and no ledger entry is changed.
C2_Insufficient ==
  (Resolved /\ SumAvailable(Candidates) < P.input.quantity) =>
    /\ Unchanged
    /\ IF Candidates = {}
       THEN R.status = "No units available for this medication"
       ELSE /\ R.status = "Insufficient quantity"
            /\ R.available = SumAvailable(Candidates)
            /\ R.requested = P.input.quantity

\* a candidate that is short of the request, beside a stocked unit that is
\* no candidate
C2_Witness ==
  /\ Resolved
  /\ Candidates # {}
  /\ SumAvailable(Candidates) < P.input.quantity
  /\ R.status = "Insufficient quantity"
  /\ \E u \in 1..Len(P.units) :
       u \notin Candidates /\ P.units[u].available_quantity > 0
  /\ P.ledger # <<>>

\* the available quantity, before the call, of the i-th unit used
UsedAvailable(i) == P.units[R.unitsUsed[i].unitId].available_quantity

\* what the walk still had to find when it reached the i-th unit used
StillNeeded(i) ==
  P.input.quantity - SumSeq([j \in 1..(i - 1) |-> UsedAvailable(j)])

\* C3: a successful checkOutMedicationFEFO run alone is greedy in expiry
\* order: the units used are the earliest-expiring candidates, each gives
\* min(remaining, available), so all but the last end at 0 and the last ends
\* at its available quantity minus the remainder; every other unit is
\* untouched; the check_out transactions are appended in that order with
\* those quantities.
C3_Greedy ==
  Succeeded("checkOutMedicationFEFO") =>
    LET used == R.unitsUsed
        n == Len(used)
        ids == {used[i].unitId : i \in 1..n}
        base == Len(P.ledger)
    IN
    /\ n >= 1
    /\ ids \subseteq Candidates
    /\ \A i, j \in 1..n : i < j => used[i].unitId # used[j].unitId
    /\ \A i, j \in 1..n :
         i < j => P.units[used[i].unitId].expiry_date
                    <= P.units[used[j].unitId].expiry_date
    /\ \A u \in Candidates \ ids : \A i \in 1..n :
         P.units[used[i].unitId].expiry_date <= P.units[u].expiry_date
    /\ \A i \in 1..n :
         /\ used[i].quantityTaken = Min(StillNeeded(i), UsedAvailable(i))
         /\ used[i].quantityTaken >= 1
         /\ units[used[i].unitId] =
              [P.units[used[i].unitId] EXCEPT
                 !.available_quantity = @ - used[i].quantityTaken]
    /\ \A i \in 1..(n - 1) : units[used[i].unitId].available_quantity = 0
    /\ units[used[n].unitId].available_quantity = UsedAvailable(n) - StillNeeded(n)
    /\ Len(units) = Len(P.units)
    /\ \A u \in 1..Len(units) : u \notin ids => units[u] = P.units[u]
    /\ Len(ledger) = base + n
    /\ SubSeq(ledger, 1, base) = P.ledger
    /\ Len(R.transactions) = n
    /\ \A i \in 1..n :
         /\ ledger[base + i].type = "check_out"
         /\ ledger[base + i].quantity = used[i].quantityTaken
         /\ ledger[base + i].unit_id = used[i].unitId
         /\ ledger[base + i].clinic_id = P.clinicId
         /\ R.transactions[i].transactionId = base + i
         /\ R.transactions[i].quantity = used[i].quantityTaken
         /\ R.transactions[i].unitId = used[i].unitId

\* the scenario of the specification at the model's scale: two units of 2,
\* a request of 3, the earlier unit ends at 0 and the later at 1, with
\* transactions of 2 and 1 in that order
C3_Witness ==
  /\ Succeeded("checkOutMedicationFEFO")
  /\ Len(R.unitsUsed) = 2
  /\ P.input.quantity = 3
  /\ UsedAvailable(1) = 2 /\ UsedAvailable(2) = 2
  /\ R.unitsUsed[1].expiryDate < R.unitsUsed[2].expiryDate
  /\ units[R.unitsUsed[1].unitId].available_quantity = 0
  /\ units[R.unitsUsed[2].unitId].available_quantity = 1
  /\ ledger[Len(ledger) - 1].quantity = 2
  /\ ledger[Len(ledger)].quantity = 1

\* C4: with no concurrent activity, when a unit's update or transaction
\* insert fails during the walk (the storage failure of the claim; the
\* rollback's own reads and writes succeed), the call fails and every
\* unit's available quantity, the failing unit's included, is what it was
\* before the call.
C4_QuantitiesRestored ==
  (WalkFailed /\ ~R.rollbackFailed) =>
    /\ Len(units) = Len(P.units)
    /\ \A u \in 1..Len(units) :
         units[u].available_quantity = P.units[u].available_quantity

\* the second unit's transaction insert failed: the first unit had been
\* decremented and its transaction written, and both units are back at
\* their quantities
C4_Witness ==
  /\ WalkFailed
  /\ R.status = "Failed to create transaction"
  /\ ~R.rollbackFailed
  /\ Len(ledger) = Len(P.ledger) + 1
  /\ units = P.units

\* C5 as claimed: after a failed walk whose compensation ran (and itself
\* met no storage failure), units and ledger together are as before the call.
C5_StateRestored ==
  (WalkFailed /\ ~R.rollbackFailed) => Unchanged

RECURSIVE CheckedOut(_, _)
\* the sum of the quantities of the check_out transactions of unit u in txs
CheckedOut(txs, u) ==
  IF txs = <<>> THEN 0
  ELSE (IF txs[1].type = "check_out" /\ txs[1].unit_id = u
        THEN txs[1].quantity ELSE 0)
       + CheckedOut(Tail(txs), u)

\* C6 as claimed: after any sequence of completed createUnit calls with
\* availableQuantity = totalQuantity, checkOutUnit calls and
\* checkOutMedicationFEFO calls (no updateUnit, no failed rollback write),
\* each unit's check_out quantities sum to totalQuantity - availableQuantity.
C6_Reconciles ==
  (pc[1] = "idle" /\ hist = {}) =>
    \A u \in 1..Len(units) :
      CheckedOut(ledger, u) = units[u].total_quantity - units[u].available_quantity

\* C7 as claimed: after any sequence of createUnit, updateUnit, checkOutUnit
\* and checkOutMedicationFEFO calls run one at a time, every unit has
\* 0 <= availableQuantity <= totalQuantity.
C7_QuantityBounds ==
  pc[1] = "idle" =>
    \A u \in 1..Len(units) :
      /\ 0 <= units[u].available_quantity
      /\ units[u].available_quantity <= units[u].total_quantity

\* C8 as claimed: a successful createUnit stores the totalQuantity and the
\* availableQuantity of its input, and the stored availableQuantity is at
\* most the stored totalQuantity.
C8_CreatedWithinTotal ==
  Succeeded("createUnit") =>
    LET unit == units[R.unit.unitId] IN
    /\ unit.total_quantity = P.input.totalQuantity
    /\ unit.available_quantity = P.input.availableQuantity
    /\ unit.available_quantity <= unit.total_quantity

\* C9: a successful checkOutUnit of quantity q, run alone on a unit with
\* available quantity a >= q, leaves the unit at a - q, appends exactly one
\* check_out transaction of quantity q for that unit, and changes no other
\* unit and no other transaction.
C9_SingleCheckout ==
  Succeeded("checkOutUnit") =>
    LET unitId == P.input.unitId
        q == P.input.quantity
        a == P.units[unitId].available_quantity
    IN
    /\ a >= q
    /\ units = [P.units EXCEPT ![unitId].available_quantity = a - q]
    /\ ledger = Append(P.ledger,
                       [type |-> "check_out", quantity |-> q, unit_id |-> unitId,
                        clinic_id |-> P.clinicId, notes |-> P.input.notes])
    /\ R.transaction.quantity = q
    /\ R.transaction.unitId = unitId

\* a unit of 2 gives 1 and is left with 1, beside another unit of the clinic
C9_Witness ==
  /\ Succeeded("checkOutUnit")
  /\ P.input.quantity = 1
  /\ P.units[P.input.unitId].available_quantity = 2
  /\ units[P.input.unitId].available_quantity = 1
  /\ \E u \in 1..Len(units) :
       u # P.input.unitId /\ units[u].clinic_id = P.clinicId

\* C10: when checkOutUnit's transaction insert fails after the unit was
\* decremented (the rollback write itself succeeding, and nothing else
\* touching the unit), the call fails, the unit's available quantity is what
\* it was before the checkout, and the ledger has no new transaction.
C10_CheckoutRolledBack ==
  (/\ Returned("checkOutUnit")
   /\ R.status = "Failed to create transaction"
   /\ ~R.rollbackFailed) =>
    /\ units = P.units
    /\ ledger = P.ledger

\* a checkout of 1 from a unit of 2 whose transaction insert failed
C10_Witness ==
  /\ Returned("checkOutUnit")
  /\ R.status = "Failed to create transaction"
  /\ ~R.rollbackFailed
  /\ P.input.quantity = 1
  /\ units[P.input.unitId].available_quantity = 2

\* the unit a checkOutUnit request names is a unit of the caller's clinic
RequestedUnitInClinic ==
  /\ P.input.unitId \in 1..Len(P.units)
  /\ P.units[P.input.unitId].clinic_id = P.clinicId

\* C11: a checkOutUnit whose read of the unit answers fails with "Unit not
\* found" exactly when the caller's clinic has no unit of the given id, and
\* with "Insufficient quantity" (reporting both figures) exactly when the
\* unit is the clinic's and its available quantity is less than the
\* requested quantity; a read that fails also gives "Unit not found"; in all
\* these cases no unit and no ledger entry is changed.
C11_NotFoundOrInsufficient ==
  Returned("checkOutUnit") =>
    IF "unitError" \in DOMAIN R
    THEN R.status = "Unit not found" /\ Unchanged
    ELSE /\ (R.status = "Unit not found") <=> ~RequestedUnitInClinic
         /\ (R.status = "Insufficient quantity") <=>
              (/\ RequestedUnitInClinic
               /\ P.units[P.input.unitId].available_quantity < P.input.quantity)
         /\ (R.status = "Insufficient quantity") =>
              /\ R.available = P.units[P.input.unitId].available_quantity
              /\ R.requested = P.input.quantity
         /\ (R.status \in {"Unit not found", "Insufficient quantity"}) => Unchanged

\* clinic c1 asks for the stocked unit of clinic c2 and is told it does not
\* exist
C11_Witness ==
  /\ Returned("checkOutUnit")
  /\ "unitError" \notin DOMAIN R
  /\ R.status = "Unit not found"
  /\ P.input.unitId \in 1..Len(P.units)
  /\ P.units[P.input.unitId].clinic_id # P.clinicId
  /\ P.units[P.input.unitId].available_quantity >= P.input.quantity
  /\ P.input.quantity > 0

\* a request for more than the clinic's unit holds
C11_InsufficientReached ==
  /\ Returned("checkOutUnit")
  /\ R.status = "Insufficient quantity"
  /\ P.units[P.input.unitId].available_quantity = 1
  /\ P.input.quantity = 2

\* the sum of totalQuantity over the units of a lot, before the call
LotTotalBefore(lotId) ==
  SumSeq([i \in 1..Len(P.units) |->
            IF P.units[i].lot_id = lotId THEN P.units[i].total_quantity ELSE 0])

\* the createUnit request names a drug and a lot of the caller's clinic
CreateReachedCapacityCheck ==
  /\ Returned("createUnit")
  /\ "drugId" \in DOMAIN P.input
  /\ P.input.lotId \in LotIds
  /\ Lots[P.input.lotId].clinic_id = P.clinicId

\* C12: a createUnit that reaches the capacity check fails with "Would
\* exceed lot capacity" exactly when the lot has a maxCapacity and the sum of
\* totalQuantity of the lot's units plus input.totalQuantity is greater than
\* it (a sum equal to maxCapacity is accepted); the failure reports current,
\* attempted and available, and creates no unit and no transaction.
C12_CapacityExceeded ==
  CreateReachedCapacityCheck =>
    LET lot == Lots[P.input.lotId]
        current == LotTotalBefore(P.input.lotId)
    IN
    /\ (R.status = "Would exceed lot capacity") <=>
         (lot.hasMax /\ current + P.input.totalQuantity > lot.maxCapacity)
    /\ (R.status = "Would exceed lot capacity") =>
         /\ Unchanged
         /\ R.current = current
         /\ R.attempted = P.input.totalQuantity
         /\ R.available = lot.maxCapacity - current

\* a unit that fills the lot exactly is created
C12_Witness ==
  /\ Succeeded("createUnit")
  /\ Lots[P.input.lotId].hasMax
  /\ LotTotalBefore(P.input.lotId) > 0
  /\ LotTotalBefore(P.input.lotId) + P.input.totalQuantity
       = Lots[P.input.lotId].maxCapacity
  /\ Len(units) = Len(P.units) + 1

\* a unit that would overfill the lot by one is rejected
C12_RejectedReached ==
  /\ CreateReachedCapacityCheck
  /\ R.status = "Would exceed lot capacity"
  /\ LotTotalBefore(P.input.lotId) + P.input.totalQuantity
       = Lots[P.input.lotId].maxCapacity + 1
  /\ Unchanged

\* C13 as claimed: in every state reached by interleaved createUnit calls,
\* no lot with a maxCapacity holds units whose totalQuantity sums to more
\* than it.
C13_CapacityNeverExceeded == WithinCapacity(units)

\* request p's call returned success
Ok(p) == pc[p] = "idle" /\ result[p].status = "ok"

\* what request p's successful checkout took from unit u
Took(p, u) ==
  IF result[p].op = "checkOutUnit"
  THEN IF pre[p].input.unitId = u THEN pre[p].input.quantity ELSE 0
  ELSE SumSeq([i \in 1..Len(result[p].unitsUsed) |->
                 IF result[p].unitsUsed[i].unitId = u
                 THEN result[p].unitsUsed[i].quantityTaken ELSE 0])

\* the number of check_out transactions of quantity q for unit u in txs
RECURSIVE CheckOutsOf(_, _, _)
CheckOutsOf(txs, u, q) ==
  IF txs = <<>> THEN 0
  ELSE (IF txs[1].type = "check_out" /\ txs[1].unit_id = u /\ txs[1].quantity = q
        THEN 1 ELSE 0)
       + CheckOutsOf(Tail(txs), u, q)

\* both requests read unit u at the same available quantity, and both
\* checked out a positive quantity from it with success
BothTookFrom(u) ==
  /\ Ok(1) /\ Ok(2)
  /\ u \in 1..Len(pre[1].units) /\ u \in 1..Len(pre[2].units)
  /\ pre[1].units[u].available_quantity = pre[2].units[u].available_quantity
  /\ Took(1, u) > 0 /\ Took(2, u) > 0

\* C14: when two concurrent checkouts (checkOutUnit or
\* checkOutMedicationFEFO) read the same available quantity a of a unit and
\* both succeed taking q1 and q2 from it, both check_out transactions are in
\* the ledger and the unit ends at a - q1 or a - q2, never at a - q1 - q2.
C14_LostUpdate ==
  \A u \in 1..Len(units) :
    BothTookFrom(u) =>
      LET a == pre[1].units[u].available_quantity
          q1 == Took(1, u)
          q2 == Took(2, u)
      IN
      /\ units[u].available_quantity \in {a - q1, a - q2}
      /\ units[u].available_quantity # a - q1 - q2
      /\ CheckOutsOf(ledger, u, q1) >= (IF q1 = q2 THEN 2 ELSE 1)
      /\ CheckOutsOf(ledger, u, q2) >= (IF q1 = q2 THEN 2 ELSE 1)
      /\ Len(ledger) >= Len(pre[1].ledger) + 2

\* a checkOutUnit and a checkOutMedicationFEFO each take 1 from a unit both
\* read at 2: two check_outs of 1 are recorded and the unit is left at 1
C14_Witness ==
  /\ BothTookFrom(1)
  /\ result[1].op = "checkOutUnit"
  /\ result[2].op = "checkOutMedicationFEFO"
  /\ pre[1].units[1].available_quantity = 2
  /\ Took(1, 1) = 1 /\ Took(2, 1) = 1
  /\ units[1].available_quantity = 1
  /\ CheckOutsOf(ledger, 1, 1) = 2

\* C15: under any interleaving of concurrent checkOutUnit and
\* checkOutMedicationFEFO calls, their failure and compensation paths
\* included, no unit's available quantity is ever negative (in every state,
\* also between the storage calls of a request).
C15_NeverNegative ==
  \A u \in 1..Len(units) : units[u].available_quantity >= 0

\* two requests read unit 1 at 2 and each take all of it; one fails at its
\* transaction insert and compensates, the other succeeds, and the unit ends
\* at 0
C15_Witness ==
  /\ pc[1] = "idle" /\ pc[2] = "idle"
  /\ result[1].status = "Failed to create transaction"
  /\ ~result[1].rollbackFailed
  /\ result[2].status = "ok"
  /\ pre[1].units[1].available_quantity = 2
  /\ pre[2].units[1].available_quantity = 2
  /\ pre[1].input.quantity = 2
  /\ Took(2, 1) = 2
  /\ units[1].available_quantity = 0

\* C16 as claimed: a checkOutUnit or checkOutMedicationFEFO call that
\* returns success, with any quantity the operation accepts, leaves every
\* unit's available quantity at most what it was before the call.
C16_NonIncreasing ==
  (Succeeded("checkOutUnit") \/ Succeeded("checkOutMedicationFEFO")) =>
    /\ Len(units) = Len(P.units)
    /\ \A u \in 1..Len(units) :
         units[u].available_quantity <= P.units[u].available_quantity

\* the unit a successful createUnit stored, as its input describes it
CreatedUnit ==
  [total_quantity |-> P.input.totalQuantity,
   available_quantity |-> P.input.availableQuantity,
   lot_id |-> P.input.lotId, expiry_date |-> P.input.expiryDate,
   drug_id |-> P.input.drugId, clinic_id |-> P.clinicId]

\* the check_in transaction of the unit a successful createUnit stored
CreatedCheckIn ==
  [type |-> "check_in", quantity |-> P.input.totalQuantity,
   unit_id |-> Len(P.units) + 1, clinic_id |-> P.clinicId,
   notes |-> "Initial check-in"]

\* C19: a successful createUnit run alone has stored the unit with the
\* quantities of its input and has added to the ledger either exactly one
\* check_in transaction, of quantity totalQuantity, or, when that insert
\* failed, nothing; in both cases the call succeeds and the unit stays.
C19_OneCheckIn ==
  Succeeded("createUnit") =>
    /\ units = Append(P.units, CreatedUnit)
    /\ R.unit.unitId = Len(units)
    /\ R.unit.totalQuantity = P.input.totalQuantity
    /\ \/ ledger = Append(P.ledger, CreatedCheckIn)
       \/ ledger = P.ledger

\* the check_in insert failed: the call succeeded, the unit is stored and
\* the ledger is as it was
C19_Witness ==
  /\ Succeeded("createUnit")
  /\ ledger = P.ledger
  /\ P.ledger # <<>>
  /\ units = Append(P.units, CreatedUnit)
  /\ P.input.totalQuantity = 2 /\ P.input.availableQuantity = 2

\* the check_in of a partly available unit is for its total quantity
C19_CheckInReached ==
  /\ Succeeded("createUnit")
  /\ ledger = Append(P.ledger, CreatedCheckIn)
  /\ P.input.totalQuantity = 2 /\ P.input.availableQuantity = 1

\* the request names no NDC and lacks a medication name, a strength or a
\* strength unit
LacksIdentity ==
  /\ "ndcId" \notin DOMAIN P.input
  /\ \/ "medicationName" \notin DOMAIN P.input
     \/ "strength" \notin DOMAIN P.input
     \/ "strengthUnit" \notin DOMAIN P.input

ValidationErrors ==
  {"Must provide either NDC or medication name with strength and unit",
   "Quantity must be greater than 0"}

\* C20 as claimed: checkOutMedicationFEFO fails with a validation error,
\* with no unit and no ledger entry changed, exactly when the request has no
\* NDC and lacks one of name, strength and strength unit, or its quantity is
\* not positive; a request with a name, a strength of any value and a
\* strength unit, or with an NDC, and a positive quantity is not rejected as
\* invalid.
C20_Validation ==
  Returned("checkOutMedicationFEFO") =>
    /\ (R.status \in ValidationErrors) <=>
         (LacksIdentity \/ P.input.quantity <= 0)
    /\ (R.status \in ValidationErrors) => Unchanged

\* the call under study has started
Started == budget = 0

\* the rows of tbl that were in old are those of old, except rows of the
\* given clinic, and the rows added carry the given clinic
OnlyClinicTouched(old, tbl, clinicId) ==
  /\ Len(tbl) >= Len(old)
  /\ \A i \in 1..Len(tbl) :
       IF i <= Len(old)
       THEN /\ tbl[i].clinic_id = old[i].clinic_id
            /\ old[i].clinic_id # clinicId => tbl[i] = old[i]
       ELSE tbl[i].clinic_id = clinicId

\* the unit ids and the transaction ids the call returned
ReturnedUnitIds ==
  (IF "unit" \in DOMAIN R THEN {R.unit.unitId} ELSE {})
  \cup (IF "unitsUsed" \in DOMAIN R
        THEN {R.unitsUsed[i].unitId : i \in 1..Len(R.unitsUsed)} ELSE {})
  \cup (IF "transaction" \in DOMAIN R THEN {R.transaction.unitId} ELSE {})
  \cup (IF "transactions" \in DOMAIN R
        THEN {R.transactions[i].unitId : i \in 1..Len(R.transactions)} ELSE {})

ReturnedTransactions ==
  (IF "transaction" \in DOMAIN R THEN {R.transaction} ELSE {})
  \cup (IF "transactions" \in DOMAIN R
        THEN {R.transactions[i] : i \in 1..Len(R.transactions)} ELSE {})

\* C17: a call of createUnit, getUnitById, updateUnit, checkOutUnit,
\* checkOutMedicationFEFO, getTransactions, getTransactionById or
\* updateTransaction for clinic T changes, at every storage call, no unit
\* and no transaction of another clinic, writes only records that carry T,
\* and returns only units and transactions of T.
C17_TenantIsolation ==
  Started =>
    /\ OnlyClinicTouched(P.units, units, P.clinicId)
    /\ OnlyClinicTouched(P.ledger, ledger, P.clinicId)
    /\ pc[1] = "idle" =>
         /\ \A u \in ReturnedUnitIds : units[u].clinic_id = P.clinicId
         /\ \A t \in ReturnedTransactions :
              /\ t.clinicId = P.clinicId
              /\ ledger[t.transactionId].clinic_id = P.clinicId

\* clinic c1 lists its transactions while the ledger also holds
\* transactions of clinic c2: it gets all of its own and none of c2's
C17_Witness ==
  /\ Succeeded("getTransactions")
  /\ P.clinicId = "c1"
  /\ P.input.unitId = 0
  /\ Len(R.transactions) >= 2
  /\ \E i \in 1..Len(ledger) : ledger[i].clinic_id = "c2"
  /\ Len(R.transactions) < Len(ledger)

\* clinic c1 asks for the unit of clinic c2 by its id and gets null
C17_OtherUnitHidden ==
  /\ Returned("getUnitById")
  /\ R.status = "null"
  /\ P.input.unitId \in 1..Len(units)
  /\ units[P.input.unitId].clinic_id # P.clinicId

\* C18 as claimed: once a transaction is in the ledger, no step of any
\* operation changes its type, quantity, unit reference or notes, and none
\* removes it.
C18_LedgerImmutable ==
  [][/\ Len(ledger') >= Len(ledger)
     /\ \A i \in 1..Len(ledger) : ledger'[i] = ledger[i]]_vars

\* the units of the caller's clinic that the explicit range alone selects
RangeAlone ==
  {u \in 1..Len(P.units) :
     /\ P.units[u].clinic_id = P.clinicId
     /\ "expiryDateFrom" \in DOMAIN P.input.filters =>
          DayNumber(P.units[u].expiry_date) >= DayNumber(P.input.filters.expiryDateFrom)
     /\ "expiryDateTo" \in DOMAIN P.input.filters =>
          DayNumber(P.units[u].expiry_date) <= DayNumber(P.input.filters.expiryDateTo)}

\* C21 as claimed: when getUnitsAdvanced is given both an expiration window
\* and an explicit expiry date range, the units it returns are exactly those
\* the explicit range alone selects.
C21_RangePrecedence ==
  (/\ Succeeded("getUnitsAdvanced")
   /\ "expirationWindow" \in DOMAIN P.input.filters
   /\ "expiryDateFrom" \in DOMAIN P.input.filters
   /\ "expiryDateTo" \in DOMAIN P.input.filters) =>
    {R.units[i].unitId : i \in 1..Len(R.units)} = RangeAlone

\* request 1's allocation is writing back the k-th unit it used, and the
\* write is not a failed one
RestoresUsedUnit(u) ==
  /\ pc[1] = "fefo_rollback_write"
  /\ pc'[1] # "fefo_rollback_write"
  /\ "rollbackFailed" \notin hist'
  /\ loc[1].unitsUsed[loc[1].k].unitId = u

\* request 2's checkout of unit u read the unit after request 1's allocation
\* had taken `taken` from it, and has completed with success
CheckedOutAfterDecrement(u, taken) ==
  /\ Ok(2)
  /\ u \in 1..Len(pre[2].units)
  /\ Took(2, u) # 0
  /\ pre[2].units[u].available_quantity
       = pre[1].units[u].available_quantity - taken

RestoresCurrentUnit(u) ==
  /\ pc[1] = "fefo_rollback_current"
  /\ pc'[1] = "idle"
  /\ ~result'[1].rollbackFailed
  /\ loc[1].units[loc[1].i].unit_id = u

\* what request 1's allocation took from the unit it is at
CurrentQuantityTaken ==
  QuantityToTake(loc[1].remainingQuantity,
                 loc[1].units[loc[1].i].available_quantity)

\* C23: when the transaction insert fails for the current unit of a FEFO
\* walk, the unit is restored by adding back what was taken to its current
\* quantity, so another request's checkout that read and wrote the unit
\* after the allocation's decrement is still reflected.
C23_CurrentUnitKeepsConcurrentCheckout ==
  [][\A u \in 1..Len(units) :
       (/\ RestoresCurrentUnit(u)
        /\ CheckedOutAfterDecrement(u, CurrentQuantityTaken)
        /\ Took(2, u) > 0) =>
         units'[u].available_quantity
           = units[u].available_quantity + CurrentQuantityTaken]_vars

\* the request has been made and every quantity it asked for is positive
StartedPositive(p) ==
  /\ pc[p] # "idle" \/ result[p].op # "none"
  /\ pre[p].input.quantity > 0

\* C24: when every checkOutUnit and checkOutMedicationFEFO call asks for a
\* positive quantity, no interleaving of the calls and of their compensation
\* leaves a unit with more available than its total.
C24_AvailableWithinTotal ==
  (budget = 0 /\ \A p \in Procs : StartedPositive(p)) =>
    \A u \in 1..Len(units) :
      units[u].available_quantity <= units[u].total_quantity

\* request 1's checkOutUnit is writing the unit back after its transaction
\* insert failed, and the write is not a failed one
RollsBackCheckOut(u) ==
  /\ pc[1] = "checkout_rollback"
  /\ pc'[1] = "idle"
  /\ ~result'[1].rollbackFailed
  /\ loc[1].input.unitId = u

\* C28: when checkOutUnit rolls back after a failed transaction insert,
\* another request's checkout of the same unit that read and wrote after
\* this call's decrement, and completed before the rollback write, is still
\* reflected in the unit's available quantity after the rollback.
C28_RollbackKeepsConcurrentCheckout ==
  [][\A u \in 1..Len(units) :
       (/\ RollsBackCheckOut(u)
        /\ loc[1].input.quantity > 0
        /\ CheckedOutAfterDecrement(u, loc[1].input.quantity)
        /\ Took(2, u) > 0) =>
         units'[u].available_quantity
           = pre[1].units[u].available_quantity - Took(2, u)]_vars

\* C28 as the code has it: the rollback of checkOutUnit writes the quantity
\* the call read before its decrement; a checkout of the same unit by
\* another request that read and wrote after the decrement and completed
\* before the rollback write is overwritten.
C28_RollbackRestoresValueRead ==
  [][\A u \in 1..Len(units) :
       (/\ RollsBackCheckOut(u)
        /\ loc[1].input.quantity > 0
        /\ CheckedOutAfterDecrement(u, loc[1].input.quantity)
        /\ Took(2, u) > 0) =>
         units'[u].available_quantity = pre[1].units[u].available_quantity]_vars

\* request 1 read the unit at 2, wrote 1 and failed at its insert; request 2
\* read 1, wrote 0 and recorded its check_out; the rollback then wrote 2
C28_Witness ==
  /\ pc[1] = "idle" /\ pc[2] = "idle"
  /\ result[1].op = "checkOutUnit"
  /\ result[1].status = "Failed to create transaction"
  /\ ~result[1].rollbackFailed
  /\ pre[1].input.quantity = 1
  /\ result[2].op = "checkOutUnit" /\ Ok(2)
  /\ LET u == pre[1].input.unitId IN
     /\ Took(2, u) = 1
     /\ pre[1].units[u].available_quantity = 2
     /\ pre[2].units[u].available_quantity = 1
     /\ units[u].available_quantity = 2
     /\ Len(ledger) = Len(pre[1].ledger) + 1

\* the re-read or the restoring update of the k-th used unit has just failed
CompensationStepFailed ==
  /\ <<pc[1], loc[1]>>' # <<pc[1], loc[1]>>
  /\ \/ pc[1] = "fefo_rollback_read" /\ pc'[1] # "fefo_rollback_write"
     \/ pc[1] = "fefo_rollback_write" /\ units' = units

\* C25: when the re-read or the restoring update of a used unit fails during
\* the compensation of a failed allocation, nothing is raised for it: the
\* compensation goes on to the next used unit, then to the current unit
\* (insert failure), and the call ends with the error of the step that
\* started the compensation.
C25_CompensationFailureNotRaised ==
  [][CompensationStepFailed =>
       LET l == loc[1] IN
       /\ l.cause \in {"Failed to update unit", "Failed to create transaction"}
       /\ IF l.k < Len(l.unitsUsed)
          THEN /\ pc'[1] = "fefo_rollback_read"
               /\ loc'[1].k = l.k + 1
               /\ loc'[1].cause = l.cause
          ELSE IF l.cause = "Failed to create transaction"
          THEN /\ pc'[1] = "fefo_rollback_current"
               /\ loc'[1].cause = l.cause
          ELSE /\ pc'[1] = "idle"
               /\ result'[1].status = l.cause]_vars

\* the insert of the second unit failed, the restore of the first unit
\* failed (it is still drained), the second unit was restored all the same,
\* and the call reports the insert failure
C25_Witness ==
  /\ WalkFailed
  /\ R.status = "Failed to create transaction"
  /\ R.rollbackFailed
  /\ Len(ledger) = Len(P.ledger) + 1
  /\ \E u1, u2 \in 1..Len(units) :
       /\ u1 # u2
       /\ ledger[Len(ledger)].unit_id = u1
       /\ P.units[u1].available_quantity > 0
       /\ units[u1].available_quantity = 0
       /\ P.units[u2].available_quantity > 0
       /\ units[u2] = P.units[u2]
       /\ u2 \in Candidates

\* C26: updateTransaction leaves every unit as it was, adds and removes no
\* transaction, and changes no transaction other than the addressed one of
\* the caller's clinic; of that one it changes only the quantity and the
\* notes, each to the value given when one is given.
C26_UpdateTransactionFrame ==
  Returned("updateTransaction") =>
    /\ units = P.units
    /\ Len(ledger) = Len(P.ledger)
    /\ \A i \in 1..Len(ledger) :
         IF /\ Succeeded("updateTransaction")
            /\ i = P.input.transactionId
            /\ P.ledger[i].clinic_id = P.clinicId
         THEN /\ \A f \in DOMAIN ledger[i] \ {"quantity", "notes"} :
                   ledger[i][f] = P.ledger[i][f]
              /\ ledger[i].quantity =
                   IF "quantity" \in DOMAIN P.input.updates
                   THEN P.input.updates.quantity ELSE P.ledger[i].quantity
              /\ ledger[i].notes =
                   IF "notes" \in DOMAIN P.input.updates
                   THEN P.input.updates.notes ELSE P.ledger[i].notes
         ELSE ledger[i] = P.ledger[i]

\* the quantity of a check_out of the caller's clinic was corrected, next
\* to another clinic's transaction, and the unit it refers to kept its
\* quantities
C26_Witness ==
  /\ Succeeded("updateTransaction")
  /\ LET i == P.input.transactionId IN
     /\ ledger[i].type = "check_out"
     /\ ledger[i].quantity # P.ledger[i].quantity
     /\ units[ledger[i].unit_id] = P.units[ledger[i].unit_id]
     /\ units[ledger[i].unit_id].total_quantity
          - units[ledger[i].unit_id].available_quantity # ledger[i].quantity
  /\ \E j \in 1..Len(ledger) : ledger[j].clinic_id # P.clinicId

\* C27: in a successful checkOutMedicationFEFO result, transactions and
\* unitsUsed have the same length; the i-th transaction is a check_out of
\* the i-th used unit for the quantity taken from it; every quantity taken
\* is at least 1; no unit is used twice.
C27_ResultCorrespondence ==
  Succeeded("checkOutMedicationFEFO") =>
    /\ Len(R.transactions) = Len(R.unitsUsed)
    /\ \A i \in 1..Len(R.unitsUsed) :
         /\ R.transactions[i].type = "check_out"
         /\ R.transactions[i].unitId = R.unitsUsed[i].unitId
         /\ R.transactions[i].quantity = R.unitsUsed[i].quantityTaken
         /\ R.unitsUsed[i].quantityTaken >= 1
    /\ \A i, j \in 1..Len(R.unitsUsed) :
         R.unitsUsed[i].unitId = R.unitsUsed[j].unitId => i = j

\* a request served from two units, one transaction for each
C27_Witness ==
  /\ Succeeded("checkOutMedicationFEFO")
  /\ Len(R.unitsUsed) = 2
  /\ R.unitsUsed[1].quantityTaken + R.unitsUsed[2].quantityTaken = P.input.quantity

\* this step is a call of acceptInvitation with token t that succeeds
AcceptSucceeds(t) ==
  /\ budget' = budget - 1
  /\ result'[1].op = "acceptInvitation"
  /\ result'[1].status = "ok"
  /\ pre'[1].input.invitationToken = t

\* C29: acceptInvitation succeeds only for an invitation that has status
\* 'invited' and has not expired; the success leaves the invitation with
\* status 'accepted', and an accepted invitation never has status 'invited'
\* again, so that every later acceptInvitation with the token fails.
C29_AcceptOnce ==
  [][\A t \in 1..Len(invitations) :
       /\ AcceptSucceeds(t) =>
            /\ invitations[t].status = "invited"
            /\ ~InvitationExpired(invitations[t], now)
            /\ invitations'[t].status = "accepted"
       /\ invitations[t].status = "accepted" =>
            invitations'[t].status # "invited"]_vars

\* C30: an invitation that has status 'accepted' keeps it through every
\* call of sendInvitation, getInvitationByToken, acceptInvitation and
\* resendInvitation, at whatever time the call is made.
C30_AcceptedIsTerminal ==
  [][\A i \in 1..Len(invitations) :
       invitations[i].status = "accepted" =>
         invitations'[i].status = "accepted"]_vars

====
